---- MODULE Spec2Model ----
(***************************************************************************)
(* Model of tools/paper_with_code/Self_Instruct/gpt_api.py.                *)
(*                                                                         *)
(* Two specifications share the module's variables:                        *)
(*   Spec      the script (the __main__ block), run any number of times    *)
(*             over the same input file and output file;                   *)
(*   SpecCall  one call of make_requests(prompts, ..., n, ..., retries)    *)
(*             against a remote completion service.                        *)
(***************************************************************************)
EXTENDS Integers, Sequences, FiniteSets, TLC

\* ------------------------------------------------------------- bounds
MaxPrompts == 3      \* longest input file / longest batch handed to make_requests
MaxCached  == 2      \* longest output file found at the first run
MaxBatch   == 2      \* largest --request_batch_size
MaxN       == 2      \* largest n (completions per prompt)
MaxRetries == 2      \* largest retries argument
MaxFails   == 2      \* most transient failures the remote stub starts with

Prompts == {"A", "B"}

Min(a, b) == IF a <= b THEN a ELSE b

SeqsUpTo(S, k) == UNION {[1..m -> S] : m \in 0..k}

\* ------------------------------------------------------------- data
\* response: None, or an object holding the flat list of choices
NoResponse == [null |-> TRUE, choices |-> <<>>]
Response(cs) == [null |-> FALSE, choices |-> cs]

\* the dict make_requests builds / json.loads returns for an output line
Record(p, r, t) == [prompt |-> p, response |-> r, created_at |-> t]

\* a line of the output file: JSON text of a record, or text json.loads rejects
Dumps(rec) == [ok |-> TRUE, rec |-> rec]
GarbageLine == [ok |-> FALSE, rec |-> Record("", NoResponse, 0)]

\* the lines an output file left by earlier work may hold
OldLines == { Dumps(Record("A", Response(<<0>>), 0)),
              Dumps(Record("A", NoResponse, 0)),
              Dumps(Record("B", Response(<<0>>), 0)),
              GarbageLine }

\* a line of the input file: the JSON object {"prompt": p}, or other text
JsonLine(p) == [ok |-> TRUE, prompt |-> p]
PlainLine == [ok |-> FALSE, prompt |-> "#"]
InputLines == {JsonLine(p) : p \in Prompts} \cup {PlainLine}

NoFile == [exists |-> FALSE, lines |-> <<>>]
File(ls) == [exists |-> TRUE, lines |-> ls]

BatchSizes == (0 - 1)..MaxBatch

VARIABLES
  \* files on disk
  input_file,              \* [exists, jsonl, lines]
  output_file,             \* [exists, lines]
  \* command line of the current run
  use_existing_responses,
  request_batch_size,
  \* __main__ locals
  existing_responses,
  all_prompts,             \* [bound, val]: the name is unbound until assigned
  all_prompt,
  i,
  \* control
  pc,
  error,
  \* observation of the run
  start_file,              \* output file as the current run found it
  prev,                    \* how the previous run ended, its batch size, whether it
                           \* had opened the output file
  batches,                 \* batch_prompts of each iteration of the current run
  remote_calls,            \* prompt lists received by client.completions.create
  \* make_requests parameters and locals
  prompts,                 \* [is_list, items]
  n,
  retries,
  retry_cnt,
  response,
  results,
  backoffs,                \* number of sleeps between attempts
  remote,                  \* the service: [fails, after]
  now

mainVars == <<input_file, output_file, use_existing_responses, request_batch_size,
              existing_responses, all_prompts, all_prompt, i, start_file, prev, batches>>
callVars == <<prompts, n, retries, retry_cnt, response, results, backoffs, remote, now>>
vars == <<mainVars, callVars, pc, error, remote_calls>>

\* ------------------------------------------------------------- __main__
EmptyStore == [p \in Prompts |-> [has |-> FALSE, rec |-> Record("", NoResponse, 0)]]

\* for line in fin: data = json.loads(line); existing_responses[data["prompt"]] = data
RECURSIVE LoadLines(_, _)
LoadLines(store, ls) ==
  IF ls = <<>> THEN store
  ELSE LoadLines([store EXCEPT ![Head(ls).rec.prompt] = [has |-> TRUE, rec |-> Head(ls).rec]],
                 Tail(ls))

AllOk(ls) == \A k \in 1..Len(ls) : ls[k].ok

\* line.strip().replace("\\n", "\n") on the text of an input line
StripUnescape(line) ==
  IF ~line.ok THEN "#"
  ELSE IF line.prompt = "A" THEN "{\"prompt\": \"A\"}" ELSE "{\"prompt\": \"B\"}"

\* s[a:b] for 0 <= a <= b
PySlice(s, a, b) ==
  LET lo == Min(a, Len(s))
      hi == Min(b, Len(s))
  IN  [k \in 1..(hi - lo) |-> s[lo + k]]

\* variant: the loop stops before a last batch shorter than the batch size
InRangeFullOnly(j) ==
  /\ request_batch_size > 0
  /\ j + request_batch_size <= Len(all_prompts.val)

\* i in range(0, len(all_prompts), request_batch_size), for a non-zero step
InRange(j) ==
  /\ request_batch_size > 0
  /\ j < Len(all_prompts.val)

\* variant: the slice ends one prompt early
BatchPromptsShort == PySlice(all_prompts.val, i, i + request_batch_size - 1)

BatchPrompts == PySlice(all_prompts.val, i, i + request_batch_size)

Cached(p) == existing_responses[p].has

AllCached(batch) == \A k \in 1..Len(batch) : Cached(batch[k])

Fail(kind) ==
  /\ pc' = "error"
  /\ error' = kind

LoadExisting ==
  /\ pc = "load_existing"
  /\ IF output_file.exists /\ use_existing_responses
       THEN IF AllOk(output_file.lines)
              THEN /\ existing_responses' = LoadLines(EmptyStore, output_file.lines)
                   /\ pc' = "read_input"
                   /\ UNCHANGED error
              ELSE /\ LET bad == CHOOSE k \in 1..Len(output_file.lines) :
                                   /\ ~output_file.lines[k].ok
                                   /\ \A m \in 1..(k - 1) : output_file.lines[m].ok
                      IN existing_responses' =
                           LoadLines(EmptyStore, SubSeq(output_file.lines, 1, bad - 1))
                   /\ Fail("JSONDecodeError")
       ELSE /\ pc' = "read_input"
            /\ UNCHANGED <<existing_responses, error>>
  /\ UNCHANGED <<input_file, output_file, use_existing_responses, request_batch_size,
                 all_prompts, all_prompt, i, start_file, prev, batches,
                 remote_calls, callVars>>

\* variant: an input line that does not parse is skipped
ReadInputSkipBad ==
  /\ pc = "read_input"
  /\ IF ~input_file.exists
       THEN Fail("FileNotFoundError") /\ UNCHANGED <<all_prompts, all_prompt>>
       ELSE IF input_file.jsonl
         THEN /\ LET good == SelectSeq(input_file.lines, LAMBDA l : l.ok)
                 IN  all_prompts' = [bound |-> TRUE,
                                     val |-> [k \in 1..Len(good) |-> good[k].prompt]]
              /\ pc' = "open_output"
              /\ UNCHANGED <<error, all_prompt>>
         ELSE /\ all_prompt' = [k \in 1..Len(input_file.lines) |->
                                  StripUnescape(input_file.lines[k])]
              /\ pc' = "open_output"
              /\ UNCHANGED <<error, all_prompts>>
  /\ UNCHANGED <<input_file, output_file, use_existing_responses, request_batch_size,
                 existing_responses, i, start_file, prev, batches, remote_calls, callVars>>

ReadInput ==
  /\ pc = "read_input"
  /\ IF ~input_file.exists
       THEN Fail("FileNotFoundError") /\ UNCHANGED <<all_prompts, all_prompt>>
       ELSE IF input_file.jsonl
         THEN IF AllOk(input_file.lines)
                THEN /\ all_prompts' = [bound |-> TRUE,
                                        val |-> [k \in 1..Len(input_file.lines) |->
                                                   input_file.lines[k].prompt]]
                     /\ pc' = "open_output"
                     /\ UNCHANGED <<error, all_prompt>>
                ELSE Fail("JSONDecodeError") /\ UNCHANGED <<all_prompts, all_prompt>>
         ELSE /\ all_prompt' = [k \in 1..Len(input_file.lines) |->
                                  StripUnescape(input_file.lines[k])]
              /\ pc' = "open_output"
              /\ UNCHANGED <<error, all_prompts>>
  /\ UNCHANGED <<input_file, output_file, use_existing_responses, request_batch_size,
                 existing_responses, i, start_file, prev, batches, remote_calls, callVars>>

\* open(args.output_file, "w"), then range(0, len(all_prompts), args.request_batch_size)
OpenOutput ==
  /\ pc = "open_output"
  /\ output_file' = File(<<>>)
  /\ IF ~all_prompts.bound THEN Fail("NameError")
     ELSE IF request_batch_size = 0 THEN Fail("ValueError")
     ELSE pc' = "loop" /\ UNCHANGED error
  /\ i' = 0
  /\ UNCHANGED <<input_file, use_existing_responses, request_batch_size,
                 existing_responses, all_prompts, all_prompt, start_file, prev, batches,
                 remote_calls, callVars>>

\* variant: replayed records get a new created_at
ReplayLinesRestamped(batch) ==
  [k \in 1..Len(batch) |->
     Dumps([existing_responses[batch[k]].rec EXCEPT !.created_at = @ + 1])]

\* the records one iteration writes when every prompt of the batch is cached
ReplayLines(batch) == [k \in 1..Len(batch) |-> Dumps(existing_responses[batch[k]].rec)]

\* variant: the output file is opened anew, in mode "w", by every iteration
CacheReplayReopen ==
  /\ pc = "loop"
  /\ InRange(i)
  /\ AllCached(BatchPrompts)
  /\ output_file' = File(ReplayLines(BatchPrompts))
  /\ batches' = Append(batches, BatchPrompts)
  /\ i' = i + request_batch_size
  /\ UNCHANGED <<input_file, use_existing_responses, request_batch_size,
                 existing_responses, all_prompts, all_prompt, start_file, prev,
                 pc, error, remote_calls, callVars>>

CacheReplay ==
  /\ pc = "loop"
  /\ InRange(i)
  /\ AllCached(BatchPrompts)
  /\ output_file' = File(output_file.lines \o ReplayLines(BatchPrompts))
  /\ batches' = Append(batches, BatchPrompts)
  /\ i' = i + request_batch_size
  /\ UNCHANGED <<input_file, use_existing_responses, request_batch_size,
                 existing_responses, all_prompts, all_prompt, start_file, prev,
                 pc, error, remote_calls, callVars>>

\* variant: the call binds its arguments and the batch reaches the service
DispatchDelivered ==
  /\ pc = "loop"
  /\ InRange(i)
  /\ ~AllCached(BatchPrompts)
  /\ batches' = Append(batches, BatchPrompts)
  /\ remote_calls' = Append(remote_calls, BatchPrompts)
  /\ output_file' = File(output_file.lines \o
                         [k \in 1..Len(BatchPrompts) |->
                            Dumps(Record(BatchPrompts[k], Response(<<0>>), 1))])
  /\ i' = i + request_batch_size
  /\ UNCHANGED <<input_file, use_existing_responses, request_batch_size,
                 existing_responses, all_prompts, all_prompt, start_file, prev,
                 pc, error, callVars>>

\* make_requests(engine=args.engine, prompts=batch_prompts, ...): make_requests has no
\* parameter named engine, so the call raises TypeError before its body runs
Dispatch ==
  /\ pc = "loop"
  /\ InRange(i)
  /\ ~AllCached(BatchPrompts)
  /\ batches' = Append(batches, BatchPrompts)
  /\ Fail("TypeError")
  /\ UNCHANGED <<input_file, output_file, use_existing_responses, request_batch_size,
                 existing_responses, all_prompts, all_prompt, i, start_file, prev,
                 remote_calls, callVars>>

Finish ==
  /\ pc = "loop"
  /\ ~InRange(i)
  /\ pc' = "done"
  /\ UNCHANGED <<mainVars, callVars, error, remote_calls>>

\* The process is killed (SIGKILL, power loss) inside the loop.  fout is a buffered
\* text file that the code never flushes: what has reached the disk is some prefix of
\* the bytes written so far, cut at a buffer boundary, so possibly inside a record.
\* (Before open() a kill leaves the files as they were, like the errors raised there.)
Kill ==
  /\ pc = "loop"
  /\ \E k \in 0..Len(output_file.lines) :
       \E torn \in (IF k < Len(output_file.lines) THEN {<<>>, <<GarbageLine>>} ELSE {<<>>}) :
          output_file' = File(SubSeq(output_file.lines, 1, k) \o torn)
  /\ pc' = "killed"
  /\ UNCHANGED <<input_file, use_existing_responses, request_batch_size,
                 existing_responses, all_prompts, all_prompt, i, start_file, prev, batches,
                 error, remote_calls, callVars>>

\* the previous run got as far as open(args.output_file, "w")
Opened == pc \in {"done", "killed"} \/ error \in {"NameError", "ValueError", "TypeError"}

\* the script is started again on the same files
Restart ==
  /\ pc \in {"done", "error", "killed"}
  /\ use_existing_responses' \in BOOLEAN
  /\ request_batch_size' \in BatchSizes
  /\ existing_responses' = EmptyStore
  /\ all_prompts' = [bound |-> FALSE, val |-> <<>>]
  /\ all_prompt' = <<>>
  /\ i' = 0
  /\ pc' = "load_existing"
  /\ error' = "none"
  /\ start_file' = output_file
  /\ prev' = [status |-> pc, batch_size |-> request_batch_size, opened |-> Opened]
  /\ batches' = <<>>
  /\ remote_calls' = <<>>
  /\ UNCHANGED <<input_file, output_file, callVars>>

IdleCall ==
  /\ prompts = [is_list |-> TRUE, items |-> <<>>]
  /\ n = 0
  /\ retries = 0
  /\ retry_cnt = 0
  /\ response = NoResponse
  /\ results = <<>>
  /\ backoffs = 0
  /\ remote = [fails |-> 0, after |-> "ok"]
  /\ now = 0

Init ==
  /\ input_file \in {[exists |-> FALSE, jsonl |-> TRUE, lines |-> <<>>]} \cup
       [exists : {TRUE}, jsonl : BOOLEAN, lines : SeqsUpTo(InputLines, MaxPrompts)]
  /\ output_file \in {NoFile} \cup {File(ls) : ls \in SeqsUpTo(OldLines, MaxCached)}
  /\ use_existing_responses \in BOOLEAN
  /\ request_batch_size \in BatchSizes
  /\ existing_responses = EmptyStore
  /\ all_prompts = [bound |-> FALSE, val |-> <<>>]
  /\ all_prompt = <<>>
  /\ i = 0
  /\ pc = "load_existing"
  /\ error = "none"
  /\ start_file = output_file
  /\ prev = [status |-> "none", batch_size |-> 0, opened |-> FALSE]
  /\ batches = <<>>
  /\ remote_calls = <<>>
  /\ IdleCall

Next ==
  \/ LoadExisting
  \/ ReadInput
  \/ OpenOutput
  \/ CacheReplay
  \/ Dispatch
  \/ Finish
  \/ Kill
  \/ Restart

Spec == Init /\ [][Next]_vars

\* ------------------------------------------------------------- make_requests
\* what client.completions.create does on its k-th call
Outcome(k) == IF k <= remote.fails THEN "transient" ELSE remote.after

\* a flat list of len choices; the choice at flat index f is named f
Choices(len) == [k \in 1..len |-> k - 1]

\* the lengths of the choice list the service may answer a call with
AnswerLengths ==
  LET want == Len(prompts.items) * n
  IN  {want, want + 1} \cup (IF want > 0 THEN {want - 1} ELSE {})

\* variant: every exception of create() is caught, slept on and retried
AttemptRetrying ==
  /\ pc = "mr_while"
  /\ retry_cnt <= retries
  /\ remote_calls' = Append(remote_calls, prompts.items)
  /\ IF Outcome(Len(remote_calls) + 1) = "ok"
       THEN /\ \E len \in AnswerLengths : response' = Response(Choices(len))
            /\ pc' = "mr_build"
            /\ UNCHANGED <<retry_cnt, backoffs>>
       ELSE /\ retry_cnt' = retry_cnt + 1
            /\ backoffs' = backoffs + 1
            /\ UNCHANGED <<pc, response>>
  /\ UNCHANGED <<mainVars, prompts, n, retries, results, remote, now, error>>

\* while retry_cnt <= retries: response = client.completions.create(...); break
\* An exception of create() is not caught: it leaves make_requests.
Attempt ==
  /\ pc = "mr_while"
  /\ retry_cnt <= retries
  /\ remote_calls' = Append(remote_calls, prompts.items)
  /\ LET outcome == Outcome(Len(remote_calls) + 1)
     IN  IF outcome = "ok"
           THEN /\ \E len \in AnswerLengths : response' = Response(Choices(len))
                /\ pc' = "mr_build"
                /\ UNCHANGED error
           ELSE /\ Fail(IF outcome = "transient" THEN "RateLimitError"
                                                  ELSE "AuthenticationError")
                /\ UNCHANGED response
  /\ UNCHANGED <<mainVars, prompts, n, retries, retry_cnt, results, backoffs, remote, now>>

\* the loop condition is false on entry: the body never runs
SkipLoop ==
  /\ pc = "mr_while"
  /\ ~(retry_cnt <= retries)
  /\ pc' = "mr_build"
  /\ UNCHANGED <<mainVars, callVars, error, remote_calls>>

\* variant: one slice too long by a choice
BuildDataLong(j, t) ==
  Record(prompts.items[j + 1],
         IF response.null THEN NoResponse
                          ELSE Response(PySlice(response.choices, j * n, (j + 1) * n + 1)),
         t)

\* variant: the slice bounds are not scaled by n
BuildDataUnscaled(j, t) ==
  Record(prompts.items[j + 1],
         IF response.null THEN NoResponse
                          ELSE Response(PySlice(response.choices, j, j + n)),
         t)

\* the record built for the prompt at index j (0-based) of a list of prompts
BuildData(j, t) ==
  Record(prompts.items[j + 1],
         IF response.null THEN NoResponse
                          ELSE Response(PySlice(response.choices, j * n, (j + 1) * n)),
         t)

\* variant: a prompt gets a record only when there is a response
BuildDropsNull ==
  /\ pc = "mr_build"
  /\ \E tick \in {0, 1} :
       /\ results' = IF response.null THEN <<>>
                     ELSE IF prompts.is_list
                       THEN [k \in 1..Len(prompts.items) |-> BuildData(k - 1, now + tick * k)]
                       ELSE <<Record(prompts.items[1], response, now + tick)>>
       /\ now' = now + tick * Len(prompts.items)
  /\ pc' = "returned"
  /\ UNCHANGED <<mainVars, prompts, n, retries, retry_cnt, response, backoffs, remote,
                 error, remote_calls>>

\* if isinstance(prompts, list): one record per prompt; else: one record in all
Build ==
  /\ pc = "mr_build"
  /\ \E tick \in {0, 1} :
       /\ results' = IF prompts.is_list
                       THEN [k \in 1..Len(prompts.items) |-> BuildData(k - 1, now + tick * k)]
                       ELSE <<Record(prompts.items[1], response, now + tick)>>
       /\ now' = now + tick * Len(prompts.items)
  /\ pc' = "returned"
  /\ UNCHANGED <<mainVars, prompts, n, retries, retry_cnt, response, backoffs, remote,
                 error, remote_calls>>

IdleMain ==
  /\ input_file = [exists |-> FALSE, jsonl |-> TRUE, lines |-> <<>>]
  /\ output_file = NoFile
  /\ use_existing_responses = FALSE
  /\ request_batch_size = 1
  /\ existing_responses = EmptyStore
  /\ all_prompts = [bound |-> FALSE, val |-> <<>>]
  /\ all_prompt = <<>>
  /\ i = 0
  /\ start_file = NoFile
  /\ prev = [status |-> "none", batch_size |-> 0, opened |-> FALSE]
  /\ batches = <<>>

InitCall ==
  /\ IdleMain
  /\ prompts \in [is_list : {TRUE}, items : SeqsUpTo(Prompts, MaxPrompts)] \cup
                 [is_list : {FALSE}, items : {<<p>> : p \in Prompts}]
  /\ n \in 0..MaxN
  /\ retries \in (0 - 1)..MaxRetries
  /\ remote \in [fails : 0..MaxFails, after : {"ok", "transient", "fatal"}]
  /\ response = NoResponse
  /\ retry_cnt = 0
  /\ backoffs = 0
  /\ results = <<>>
  /\ now = 0
  /\ pc = "mr_while"
  /\ error = "none"
  /\ remote_calls = <<>>

NextCall ==
  \/ Attempt
  \/ SkipLoop
  \/ Build

SpecCall == InitCall /\ [][NextCall]_vars

\* ------------------------------------------------------------- properties
RECURSIVE Concat(_)
Concat(ss) == IF ss = <<>> THEN <<>> ELSE Head(ss) \o Concat(Tail(ss))

Ended == pc \in {"done", "error"}

\* the prompts of the input file, when every line is a JSON object with a prompt
InputPrompts == [k \in 1..Len(input_file.lines) |-> input_file.lines[k].prompt]

ReadableInput == input_file.exists /\ input_file.jsonl /\ AllOk(input_file.lines)

\* p has a record in file f
HasRecord(f, p) == \E k \in 1..Len(f.lines) : f.lines[k].ok /\ f.lines[k].rec.prompt = p

\* C1: a run with batch size S > 0 that completes has written exactly one record per
\* input prompt, the k-th record carrying the k-th input prompt.
C1_OneRecordPerPromptInOrder ==
  (pc = "done" /\ request_batch_size > 0) =>
     /\ Len(output_file.lines) = Len(input_file.lines)
     /\ \A k \in 1..Len(output_file.lines) :
          /\ output_file.lines[k].ok
          /\ output_file.lines[k].rec.prompt = InputPrompts[k]

C1_Witness ==
  /\ pc = "done"
  /\ request_batch_size = 2
  /\ Len(input_file.lines) = 3
  /\ Len(output_file.lines) = 3
  /\ InputPrompts[1] # InputPrompts[2]
  /\ Len(batches) = 2

\* C2: with resumption enabled, no call received by the remote service during the run
\* holds a prompt that has a record in the output file the run found.
C2_CachedPromptNeverSent ==
  use_existing_responses =>
     \A c \in 1..Len(remote_calls) : \A k \in 1..Len(remote_calls[c]) :
        ~HasRecord(start_file, remote_calls[c][k])

\* a batch holding a cached prompt and an uncached one has been handed to make_requests
C2_Witness ==
  /\ use_existing_responses
  /\ pc = "error"
  /\ error = "TypeError"
  /\ batches # <<>>
  /\ \E k \in 1..Len(batches[Len(batches)]) :
        /\ HasRecord(start_file, batches[Len(batches)][k])
        /\ Cached(batches[Len(batches)][k])
  /\ remote_calls = <<>>

\* C3: when the previous run completed and this run has resumption enabled and a
\* positive batch size, this run ends having written exactly the records the previous
\* run wrote, with no remote call; it completes when the previous batch size was
\* positive too.  Inputs may repeat a prompt.
C3_ResumeIdempotent ==
  (Ended /\ prev.status = "done" /\ use_existing_responses /\ request_batch_size > 0) =>
     /\ output_file = start_file
     /\ remote_calls = <<>>
     /\ prev.batch_size > 0 => pc = "done"

C3_Witness ==
  /\ pc = "done"
  /\ prev.status = "done"
  /\ prev.batch_size > 0
  /\ use_existing_responses
  /\ request_batch_size > 0
  /\ Len(input_file.lines) = 3
  /\ InputPrompts[1] = InputPrompts[3]
  /\ InputPrompts[1] # InputPrompts[2]
  /\ output_file = start_file
  /\ Len(output_file.lines) = 3

\* C4: a first run with no output file, a readable input and a positive batch size
\* completes with one non-null record per prompt, every batch having been delivered
\* to the remote service.
C4_FirstRunDelivers ==
  (Ended /\ prev.status = "none" /\ ~start_file.exists /\ ReadableInput
         /\ request_batch_size > 0) =>
     /\ pc = "done"
     /\ Len(output_file.lines) = Len(input_file.lines)
     /\ \A k \in 1..Len(output_file.lines) : ~output_file.lines[k].rec.response.null
     /\ remote_calls = batches

\* C8: for batch size S > 0 the batches taken by the loop, concatenated in order, are
\* the input prompts read so far (all of them when the run completes); every batch is
\* non-empty and every batch but the one that reaches the end of the input has S prompts.
C8_BatchesPartitionInput ==
  (all_prompts.bound /\ request_batch_size > 0) =>
     /\ Concat(batches) = SubSeq(all_prompts.val, 1, Len(Concat(batches)))
     /\ Len(Concat(batches)) <= Len(all_prompts.val)
     /\ \A b \in 1..Len(batches) :
          /\ Len(batches[b]) >= 1
          /\ Len(batches[b]) <= request_batch_size
          /\ Len(batches[b]) < request_batch_size =>
               (b = Len(batches) /\ Len(Concat(batches)) = Len(all_prompts.val))
     /\ pc = "done" => Concat(batches) = all_prompts.val

C8_Witness ==
  /\ pc = "done"
  /\ request_batch_size = 2
  /\ Len(all_prompts.val) = 3
  /\ Len(batches) = 2
  /\ Len(batches[1]) = 2
  /\ Len(batches[2]) = 1

\* C9: a run over a readable, non-empty input whose batch size is zero or negative
\* never completes.
C9_NonPositiveBatchSizeFails ==
  (request_batch_size <= 0 /\ ReadableInput /\ Len(input_file.lines) >= 1) => pc # "done"

\* ---- make_requests (SpecCall)
Returned == pc = "returned"
Raised == pc = "error"

AllNull == \A k \in 1..Len(results) : results[k].response.null

\* C5: when the service fails transiently on the first `retries` attempts for a
\* non-empty batch and succeeds on the next, the call ends after retries + 1 attempts
\* and `retries` backoff waits, returning the successful response.
C5_RetriesThenSuccess ==
  ((Returned \/ Raised) /\ retries >= 0 /\ prompts.items # <<>>
      /\ remote.fails = retries /\ remote.after = "ok") =>
     /\ Len(remote_calls) = retries + 1
     /\ backoffs = retries
     /\ Returned
     /\ ~response.null

\* C6: when the service fails transiently on every attempt for a non-empty batch, the
\* call ends after retries + 1 attempts and returns one null-response record per prompt.
C6_ExhaustedGivesNullRecords ==
  ((Returned \/ Raised) /\ retries >= 0 /\ prompts.is_list /\ prompts.items # <<>>
      /\ remote.after = "transient") =>
     /\ Len(remote_calls) = retries + 1
     /\ Returned
     /\ Len(results) = Len(prompts.items)
     /\ AllNull

\* C7: once an attempt has failed non-transiently the call is over: the exception has
\* left make_requests, that attempt is the only one and no record was built.
C7_NonTransientNotRetried ==
  (remote_calls # <<>> /\ Outcome(Len(remote_calls)) = "fatal") =>
     /\ Raised
     /\ error = "AuthenticationError"
     /\ Len(remote_calls) = 1
     /\ results = <<>>

C7_Witness ==
  /\ Raised
  /\ error = "AuthenticationError"
  /\ retries = 2
  /\ Len(remote_calls) = 1
  /\ Len(prompts.items) = 2

\* C10: for a list of k prompts and a response of k*n choices, the call returns k
\* records in batch order, the record at index j holding the choices at flat indices
\* j*n .. (j+1)*n - 1 in that order.
C10_SliceExact ==
  (Returned /\ prompts.is_list /\ ~response.null
            /\ Len(response.choices) = Len(prompts.items) * n) =>
     /\ Len(results) = Len(prompts.items)
     /\ \A j \in 0..(Len(prompts.items) - 1) :
          /\ results[j + 1].prompt = prompts.items[j + 1]
          /\ ~results[j + 1].response.null
          /\ results[j + 1].response.choices = [m \in 1..n |-> j * n + m - 1]

C10_Witness ==
  /\ Returned
  /\ prompts.is_list
  /\ Len(prompts.items) = 3
  /\ n = 2
  /\ Len(response.choices) = 6
  /\ results[2].response.choices = <<2, 3>>

\* ---- the script (Spec), continued
SomeCached(batch) == \E k \in 1..Len(batch) : Cached(batch[k])

\* C11: every batch taken by the loop that has a cached prompt and an uncached one has
\* been received whole by the remote service, in one call holding all of its prompts.
C11_PartialBatchSentWhole ==
  \A b \in 1..Len(batches) :
     (SomeCached(batches[b]) /\ ~AllCached(batches[b])) =>
        \E c \in 1..Len(remote_calls) : remote_calls[c] = batches[b]

\* C12: a run that terminates normally has written a complete output: one record per
\* input prompt, in input order (the only other way to terminate being a fatal error).
C12_DoneMeansComplete ==
  pc = "done" =>
     /\ Len(output_file.lines) = Len(input_file.lines)
     /\ \A k \in 1..Len(output_file.lines) :
          output_file.lines[k].rec.prompt = InputPrompts[k]

\* the steps of the script itself; it is never blocked, so they are taken when enabled
RunStep == LoadExisting \/ ReadInput \/ OpenOutput \/ CacheReplay \/ Dispatch \/ Finish

SpecFair == Spec /\ WF_vars(RunStep)

\* every run started comes to an end (normally, by an exception, or killed)
RunsTerminate == (pc = "load_existing") ~> (pc \in {"done", "error", "killed"})

IsPrefix(s, t) == Len(s) <= Len(t) /\ SubSeq(t, 1, Len(s)) = s

\* C13 as claimed: no step of the script removes or overwrites a record that is in the
\* output file, records left by a previous run included.
C13_AppendOnly ==
  [][pc' # "killed" => IsPrefix(output_file.lines, output_file'.lines)]_vars

\* C13: once a run has opened the output file, no later step of the script removes or
\* overwrites a record in it; only the open itself empties the file.
C13_AppendOnlyAfterOpen ==
  [][(pc # "open_output" /\ pc' # "killed") =>
        IsPrefix(output_file.lines, output_file'.lines)]_vars

\* a run that found records in the file has appended two batches to it
C13_Witness ==
  /\ pc \in {"loop", "done"}
  /\ start_file.lines # <<>>
  /\ Len(batches) = 2
  /\ Len(output_file.lines) = 3

AllInFile(f, batch) == \A k \in 1..Len(batch) : HasRecord(f, batch[k])

\* C14: when the previous run was aborted (by an exception or by a kill) after it had
\* opened the output file, the file this run finds holds complete records only, they
\* are the records of a prefix of the input prompts in input order, and with resumption
\* enabled every batch made up of those prompts only is served from the cache with no
\* remote call.
C14_AbortLeavesResumablePrefix ==
  (prev.status \in {"error", "killed"} /\ prev.opened) =>
     /\ AllOk(start_file.lines)
     /\ Len(start_file.lines) <= Len(input_file.lines)
     /\ \A k \in 1..Len(start_file.lines) : start_file.lines[k].rec.prompt = InputPrompts[k]
     /\ use_existing_responses =>
          /\ error # "JSONDecodeError"
          /\ \A b \in 1..Len(batches) :
               AllInFile(start_file, batches[b]) =>
                  /\ AllCached(batches[b])
                  /\ \A c \in 1..Len(remote_calls) : remote_calls[c] # batches[b]

\* ---- make_requests (SpecCall), continued
\* C15: when the response is None, the call returns exactly one record per prompt of
\* the batch, in batch order, each with its prompt and a null response.
C15_NullResponseKeepsPrompts ==
  (Returned /\ prompts.is_list /\ response.null) =>
     /\ Len(results) = Len(prompts.items)
     /\ \A k \in 1..Len(results) :
          /\ results[k].prompt = prompts.items[k]
          /\ results[k].response = NoResponse

C15_Witness ==
  /\ Returned
  /\ prompts.is_list
  /\ response.null
  /\ remote_calls = <<>>
  /\ Len(results) = 3
  /\ results[1].prompt # results[2].prompt

\* C16 as claimed: a non-null response whose number of choices differs from
\* batch_size * n never yields records, and no record built from a response holds
\* fewer or more than n choices.
C16_MismatchFails ==
  (prompts.is_list /\ prompts.items # <<>> /\ n >= 1 /\ ~response.null) =>
     /\ Len(response.choices) # Len(prompts.items) * n => (~Returned /\ results = <<>>)
     /\ \A k \in 1..Len(results) : Len(results[k].response.choices) = n

\* C16: whatever the number of choices of a non-null response, the call returns one
\* record per prompt; the record at index j holds, in order, the flat indices of
\* j*n .. (j+1)*n - 1 that the response has: never more than n, fewer when the response
\* is short.  The call fails only when the service did.
C16_MismatchSlicedSilently ==
  /\ (Returned /\ prompts.is_list /\ ~response.null) =>
       /\ Len(results) = Len(prompts.items)
       /\ \A j \in 0..(Len(prompts.items) - 1) :
            LET cs == results[j + 1].response.choices
            IN  /\ results[j + 1].prompt = prompts.items[j + 1]
                /\ Len(cs) = Cardinality({f \in (j * n)..((j + 1) * n - 1) :
                                            f < Len(response.choices)})
                /\ \A m \in 1..Len(cs) : cs[m] = j * n + m - 1
  /\ Raised => response.null

\* two prompts, n = 2, three choices: the second record holds one choice
C16_Witness ==
  /\ Returned
  /\ prompts.is_list
  /\ Len(prompts.items) = 2
  /\ n = 2
  /\ Len(response.choices) = 3
  /\ results[1].response.choices = <<0, 1>>
  /\ results[2].response.choices = <<2>>

\* ---- the script (Spec), continued
\* the input file is missing, or is a .jsonl file with a line that does not parse
BadInput == ~input_file.exists \/ (input_file.jsonl /\ ~AllOk(input_file.lines))

\* resumption is enabled and the output file the run found has a line that does not parse
BadStore == use_existing_responses /\ start_file.exists /\ ~AllOk(start_file.lines)

\* C17: a run whose input file is missing or has an unparseable line, or whose existing
\* output file (with resumption enabled) has one, never gets past reading its files: no
\* batch is taken, no remote call is made, the output file is left as found, and the
\* only way it ends is the error raised by the failed read.
C17_InputErrorsAbortEarly ==
  (BadInput \/ BadStore) =>
     /\ remote_calls = <<>>
     /\ batches = <<>>
     /\ pc \in {"load_existing", "read_input", "error"}
     /\ pc = "error" => error \in {"JSONDecodeError", "FileNotFoundError"}
     /\ output_file = start_file

\* the store was loaded from a good output file, then the second input line failed
C17_Witness ==
  /\ pc = "error"
  /\ error = "JSONDecodeError"
  /\ ~BadStore
  /\ Cached("A")
  /\ input_file.jsonl
  /\ Len(input_file.lines) = 2
  /\ input_file.lines[1].ok
  /\ ~input_file.lines[2].ok
  /\ output_file = start_file

\* the prompts the input file yields, one per line, in its format
FilePrompts ==
  IF input_file.jsonl THEN InputPrompts
  ELSE [k \in 1..Len(input_file.lines) |-> StripUnescape(input_file.lines[k])]

\* C18: in either input format, once a non-empty input has been read the sequence the loop
\* splits into batches is the file's prompts, one per line in order, and the run does
\* not fail for want of it.
C18_BothFormatsProcessed ==
  (input_file.exists /\ input_file.lines # <<>>
      /\ (input_file.jsonl => AllOk(input_file.lines))) =>
     /\ pc \in {"open_output", "loop", "done"} =>
          (all_prompts.bound /\ all_prompts.val = FilePrompts)
     /\ error # "NameError"

\* what the store holds once an output file f has been loaded, or not
StoreFrom(f, resume) ==
  IF f.exists /\ resume THEN LoadLines(EmptyStore, f.lines) ELSE EmptyStore

\* C19: with resumption disabled the store is empty although the output file holds a
\* record for every input prompt, so a run over a readable, non-empty input with a
\* positive batch size ends with every
\* batch of the input taken, none served from the cache and each one received by the
\* remote service.
C19_NoResumeAllDispatched ==
  (~use_existing_responses /\ ReadableInput /\ input_file.lines # <<>>
      /\ request_batch_size > 0
      /\ AllOk(start_file.lines) /\ AllInFile(start_file, InputPrompts)) =>
     /\ existing_responses = EmptyStore
     /\ Ended =>
          /\ Concat(batches) = InputPrompts
          /\ remote_calls = batches

\* the store is empty until the load, is what the load of the file found makes it
\* from then on (empty unless resumption is enabled and the file exists) ...
StoreAsLoaded ==
  /\ pc = "load_existing" => existing_responses = EmptyStore
  /\ pc \in {"read_input", "open_output", "loop", "done", "killed"} =>
       existing_responses = StoreFrom(start_file, use_existing_responses)

\* ... and no step after the load changes it
StoreReadOnly ==
  [][(pc \in {"read_input", "open_output", "loop"}) =>
       (existing_responses' = existing_responses)]_vars

====
